---- MODULE Spec2Model ----
(***************************************************************************)
(* Model of the audio capture plugin: the Windows build                    *)
(* (src/windows/runner/audio_capture_plugin.cpp) and the Linux build       *)
(* (src/linux/audio_capture_plugin.cc), whose handler only builds          *)
(* responses.                                                              *)
(*                                                                         *)
(* Two threads act on the state: the platform ("control") thread, which    *)
(* runs HandleMethodCall, the stream handler's attach/detach lambdas and   *)
(* the destructors, and the producer thread spawned by StartCapture,       *)
(* which runs CaptureWorker and, inside it, the block callback given to    *)
(* StartCapture.  The producer's reads of the capture flag and of the sink *)
(* pointer are separate steps, so that the control thread can interleave   *)
(* between them; the thread-local work between them is part of the step    *)
(* that precedes it.                                                       *)
(*                                                                         *)
(* Spec is the whole plugin; FairSpec is the capture with its scheduling;  *)
(* TimedSpec is the capture with the tick count advancing; EncSpec is the  *)
(* callback's PCM conversion on its own.                                   *)
(***************************************************************************)
EXTENDS Integers, Sequences, FiniteSets

\* ---------------------------------------------------------------- bounds
\* successful StartCapture calls (each one spawns a producer thread)
MaxStarts == 2
\* stream-handler attach calls (each one brings a fresh event sink)
MaxSinks == 2
\* sample blocks synthesized by producer threads
MaxBlocks == 2

\* bound on the milliseconds the tick count advances
MaxClock == 2

\* bound on the length of the sample blocks built from the edge samples
MaxBlockLen == 2

Tids == 1..MaxStarts
SinkIds == 1..MaxSinks

VARIABLES
  isCapturing,      \* std::atomic<bool> isCapturing_
  captureThread,    \* captureThread_: 0 (nullptr) or the id of the thread it owns
  callback,         \* callback_: 0 (empty) or the id of the installed callback
  audioEventSink,   \* audioEventSink_: 0 (nullptr) or the id of the sink it holds
  workers,          \* producer threads: tid -> record (see NoWorker)
  spawned,          \* number of producer threads created so far
  ctl,              \* position of the control thread
  response,         \* last response handed to the method result
  sinks,            \* attach calls so far (sink ids)
  produced,         \* blocks synthesized so far (block ids)
  delivered,        \* chunks passed to EventSink::Success, in order
  dropped,          \* blocks whose callback found no sink attached
  freed,            \* sinks whose object has been deleted
  crashed,          \* the process died (null, dangling or freed memory used)
  platform,         \* which build of the plugin runs: "windows" or "linux"
  clock,            \* GetTickCount64(): milliseconds since the system started
  samples,          \* a sample block handed to the PCM conversion
  audioData,        \* the bytes the PCM conversion made of it
  heapCorrupted     \* the allocator's heap holds a block that was freed twice

engine == <<isCapturing, captureThread, callback, workers, spawned>>
session == <<audioEventSink, sinks, freed>>
stream == <<produced, delivered, dropped>>
\* what the capture steps and the Windows requests below never change
fixed == <<platform, clock, samples, audioData, heapCorrupted>>
vars == <<isCapturing, captureThread, callback, audioEventSink, workers,
          spawned, ctl, response, sinks, produced, delivered,
          dropped, freed, crashed, platform, clock, samples, audioData,
          heapCorrupted>>

\* pc: position in CaptureWorker; iter: loop iterations entered; block: the
\* block in hand; seen: the sink pointer read by the callback's sink test;
\* cb: the callback invoked; born: the sink attached when StartCapture
\* returned; ts: the tick count read for the chunk
NoWorker == [pc |-> "none", iter |-> 0, block |-> 0, seen |-> 0, cb |-> 0,
             born |-> 0, ts |-> 0]
\* CaptureWorker has returned (its locals are gone); the thread was joined
Exited == [NoWorker EXCEPT !.pc = "exited"]
Joined == [NoWorker EXCEPT !.pc = "joined"]
NoResponse == [method |-> "none", success |-> FALSE]

\* WindowsAudioCapture(), AudioCapturePlugin(): Idle, no thread, no sink
\* the plugin and its engine as constructed
Constructed ==
  /\ isCapturing = FALSE
  /\ captureThread = 0
  /\ callback = 0
  /\ audioEventSink = 0
  /\ workers = [t \in Tids |-> NoWorker]
  /\ spawned = 0
  /\ ctl = "idle"
  /\ response = NoResponse
  /\ sinks = 0
  /\ produced = 0
  /\ delivered = <<>>
  /\ dropped = {}
  /\ freed = {}
  /\ crashed = FALSE
  /\ clock = 0
  /\ audioData = <<>>
  /\ heapCorrupted = FALSE

Init ==
  /\ Constructed
  /\ platform \in {"windows", "linux"}
  /\ samples = <<>>

\* a producer thread that has been created and not yet joined
Unjoined(t) == workers[t].pc \notin {"none", "joined"}
\* a producer thread that is still executing CaptureWorker
Running(t) == workers[t].pc \notin {"none", "exited", "joined"}
\* a producer thread that is inside the block callback
InCallback(t) == workers[t].pc \in {"cb_check", "cb_deliver"}

\* ------------------------------------------------- control thread: start
\* variant: the already-capturing test is missing
StartGuardAlways == TRUE
\* `if (isCapturing_) return false;`
StartGuard == ~isCapturing

\* the startCapture handler builds the callback and calls StartCapture
StartCaptureCall ==
  /\ platform = "windows" /\ ~crashed /\ ctl = "idle"
  /\ spawned < MaxStarts /\ produced < MaxBlocks
  /\ ctl' = "start_check"
  /\ UNCHANGED <<fixed, engine, session, stream, response, crashed>>

\* StartCapture while capturing returns false; the response is built from it
StartCaptureFail ==
  /\ ~crashed /\ ctl = "start_check"
  /\ ~StartGuard
  /\ response' = [method |-> "startCapture", success |-> FALSE]
  /\ ctl' = "idle"
  /\ UNCHANGED <<fixed, engine, session, stream, crashed>>

\* StartCapture when idle, first half: callback_ and isCapturing_ are set
StartCaptureBegin ==
  /\ ~crashed /\ ctl = "start_check"
  /\ StartGuard
  /\ callback' = spawned + 1
  /\ isCapturing' = TRUE
  /\ ctl' = "start_spawn"
  /\ UNCHANGED <<fixed, captureThread, workers, spawned, session, stream,
                 response, crashed>>

\* second half: the thread is created, its handle stored, true returned
StartCaptureSpawn ==
  /\ ~crashed /\ ctl = "start_spawn"
  /\ spawned' = spawned + 1
  /\ workers' = [workers EXCEPT ![spawned + 1] =
                   [NoWorker EXCEPT !.pc = "loop", !.born = audioEventSink]]
  /\ captureThread' = spawned + 1
  /\ response' = [method |-> "startCapture", success |-> TRUE]
  /\ ctl' = "idle"
  /\ UNCHANGED <<fixed, isCapturing, callback, session, stream, crashed>>

\* -------------------------------------------------- control thread: stop
\* variant: StopCapture resets the handle without joining
ShouldJoinNever == FALSE
\* `captureThread_ && captureThread_->joinable()`
ShouldJoin == captureThread # 0 /\ Unjoined(captureThread)
\* std::thread::join returns once the thread function has returned
JoinDone(t) == workers[t].pc = "exited"

\* `isCapturing_ = false;`
StopFlag(from, to) ==
  /\ platform = "windows" /\ ~crashed /\ ctl = from
  /\ isCapturing' = FALSE
  /\ ctl' = to
  /\ UNCHANGED <<fixed, captureThread, callback, workers, spawned, session,
                 stream, response, crashed>>

\* a variant that keeps the handle
ResetHandleKept == captureThread

\* `captureThread_.reset()`: the handle holds no thread
ResetHandle == 0

\* the join (when there is a joinable thread) and `captureThread_.reset()`
StopJoin(from, to, resp) ==
  /\ ~crashed /\ ctl = from
  /\ IF ShouldJoin
       THEN /\ JoinDone(captureThread)
            /\ workers' = [workers EXCEPT ![captureThread] = Joined]
       ELSE workers' = workers
  /\ captureThread' = ResetHandle
  /\ response' = resp
  /\ ctl' = to
  /\ UNCHANGED <<fixed, isCapturing, callback, spawned, session, stream, crashed>>

StopCaptureBegin == StopFlag("idle", "stop_join")
StopCaptureReturn ==
  StopJoin("stop_join", "idle", [method |-> "stopCapture", success |-> TRUE])

\* ------------------------------------------ control thread: stream handler
\* on-listen lambda: `audioEventSink_ = std::move(events);`
OnListen ==
  /\ platform = "windows" /\ ~crashed /\ ctl = "idle"
  /\ sinks < MaxSinks /\ produced < MaxBlocks
  /\ sinks' = sinks + 1
  /\ audioEventSink' = sinks + 1
  /\ freed' = IF audioEventSink # 0 THEN freed \cup {audioEventSink} ELSE freed
  /\ UNCHANGED <<fixed, engine, stream, ctl, response, crashed>>

\* a variant of the on-cancel lambda that also clears the capture flag
OnCancelStopsCapture ==
  /\ platform = "windows" /\ ~crashed /\ ctl = "idle"
  /\ audioEventSink' = 0
  /\ freed' = IF audioEventSink # 0 THEN freed \cup {audioEventSink} ELSE freed
  /\ isCapturing' = FALSE
  /\ UNCHANGED <<fixed, captureThread, callback, workers, spawned, stream,
                 ctl, response, sinks, crashed>>

\* on-cancel lambda: `audioEventSink_.reset();`
OnCancel ==
  /\ platform = "windows" /\ ~crashed /\ ctl = "idle"
  /\ audioEventSink' = 0
  /\ freed' = IF audioEventSink # 0 THEN freed \cup {audioEventSink} ELSE freed
  /\ UNCHANGED <<fixed, engine, stream, ctl, response, sinks, crashed>>

\* ------------------------------------------------ control thread: teardown
\* ~AudioCapturePlugin: the members are destroyed in reverse declaration
\* order, audioEventSink_ first.  What a later read of the destroyed member
\* yields is not defined: the null or the old pointer.
DestroySink ==
  /\ platform = "windows" /\ ~crashed /\ ctl = "idle"
  /\ freed' = IF audioEventSink # 0 THEN freed \cup {audioEventSink} ELSE freed
  /\ audioEventSink' \in {0, audioEventSink}
  /\ ctl' = "dtor_stop"
  /\ UNCHANGED <<fixed, engine, stream, response, sinks, crashed>>

\* then audioCapture_: ~WindowsAudioCapture calls StopCapture
DestroyStopFlag == StopFlag("dtor_stop", "dtor_join")
DestroyStopJoin == StopJoin("dtor_join", "destroyed", response)

\* --------------------------------------------------------- producer thread
\* variant: the loop never tests the capture flag
LoopCondAlways == TRUE
\* `while (isCapturing_)`
LoopCond == isCapturing
\* `if (callback_)`
HasCallback == callback # 0
\* variant: the sink test is inverted
SinkAttachedInverted == audioEventSink = 0
\* `if (audioEventSink_)`
SinkAttached == audioEventSink # 0

\* the loop head: the test of the capture flag
WorkerLoop(t) ==
  /\ ~crashed /\ workers[t].pc = "loop"
  /\ IF LoopCond
       THEN /\ produced < MaxBlocks
            /\ workers' = [workers EXCEPT ![t].pc = "cb_test",
                                          ![t].iter = @ + 1]
       ELSE workers' = [workers EXCEPT ![t] = Exited]
  /\ UNCHANGED <<fixed, isCapturing, captureThread, callback, spawned,
                 session, stream, ctl, response, crashed>>

\* the callback test, the synthesis of the block and the call of callback_
\* with it; with no callback the thread sleeps
WorkerProduce(t) ==
  /\ ~crashed /\ workers[t].pc = "cb_test"
  /\ IF HasCallback
       THEN /\ produced' = produced + 1
            /\ workers' = [workers EXCEPT ![t].pc = "cb_check",
                                          ![t].block = produced + 1,
                                          ![t].seen = 0,
                                          ![t].cb = callback]
       ELSE /\ produced' = produced
            /\ workers' = [workers EXCEPT ![t].pc = "loop"]
  /\ UNCHANGED <<fixed, isCapturing, captureThread, callback, spawned,
                 session, delivered, dropped, ctl, response, crashed>>

\* the chunk's timestamp: `static_cast<int64_t>(GetTickCount64())`
Timestamp == clock

\* callback: the sink test.  With a sink the samples are converted and the
\* chunk map is built, with its timestamp; with none the block is dropped,
\* the callback returns and the thread sleeps
CallbackCheck(t) ==
  /\ ~crashed /\ workers[t].pc = "cb_check"
  /\ IF SinkAttached
       THEN /\ workers' = [workers EXCEPT ![t].pc = "cb_deliver",
                                          ![t].seen = audioEventSink,
                                          ![t].ts = Timestamp]
            /\ dropped' = dropped
       ELSE /\ workers' = [workers EXCEPT ![t].pc = "loop"]
            /\ dropped' = dropped \cup {workers[t].block}
  /\ UNCHANGED <<fixed, isCapturing, captureThread, callback, spawned, session,
                 produced, delivered, ctl, response, crashed>>

\* the pointer `audioEventSink_->` may yield: the member as it is now, or,
\* the access being unsynchronized, the pointer seen by the sink test
DeliverHandles(t) == {audioEventSink, workers[t].seen}

\* callback: `audioEventSink_->Success(chunk)`, after which the callback
\* returns and the thread sleeps.  A null pointer kills the process; a
\* pointer to a deleted sink kills it or writes into the freed object.
CallbackDeliver(t) ==
  /\ ~crashed /\ workers[t].pc = "cb_deliver"
  /\ \E h \in DeliverHandles(t) :
       \/ /\ h # 0
          /\ delivered' = Append(delivered,
               [sink |-> h, block |-> workers[t].block,
                checked |-> workers[t].seen, tid |-> t,
                cb |-> workers[t].cb, iter |-> workers[t].iter,
                ts |-> workers[t].ts, live |-> h \notin freed])
          /\ workers' = [workers EXCEPT ![t].pc = "loop"]
          /\ crashed' = FALSE
       \/ /\ h = 0 \/ h \in freed
          /\ crashed' = TRUE
          /\ UNCHANGED <<delivered, workers>>
  /\ UNCHANGED <<fixed, isCapturing, captureThread, callback, spawned, session,
                 produced, dropped, ctl, response>>

WorkerStep(t) ==
  \/ WorkerLoop(t)
  \/ WorkerProduce(t)
  \/ CallbackCheck(t)
  \/ CallbackDeliver(t)

Producer == \E t \in Tids : WorkerStep(t)

\* ---- requests that do not touch the engine ----

\* the names the engine gives its devices
GetAudioSources == <<"Default Microphone", "System Audio (Loopback)">>

\* std::to_string of a device index
ToString(i) == <<"0", "1", "2", "3", "4", "5", "6", "7", "8", "9">>[i + 1]

\* the id of the i-th discovered device, i counted from 0
DeviceId(i) == "device_" \o ToString(i)

\* the list getAvailableAudioSources answers with: the system audio entry,
\* then one entry for each device of the engine
AvailableAudioSources ==
  <<[id |-> "system_audio", name |-> "System Audio", type |-> "system",
     isAvailable |-> TRUE]>>
  \o [i \in 1..Len(GetAudioSources) |->
        [id |-> DeviceId(i - 1), name |-> GetAudioSources[i],
         type |-> "microphone", isAvailable |-> TRUE]]

\* the list the Linux getAudioSources builds
LinuxAudioSources ==
  <<[id |-> "default_microphone", name |-> "Default Microphone",
     type |-> "microphone", isAvailable |-> TRUE],
    [id |-> "system_audio", name |-> "System Audio", type |-> "system",
     isAvailable |-> TRUE]>>

\* Each element of that list is released twice: fl_value_append_take takes
\* the one reference there is, and the g_autoptr holding the element drops it
\* again where the branch ends, before the response is sent.  What a read of
\* the freed element yields is not defined: its old contents, or whatever
\* the allocator has left there.
FreedValue ==
  [id |-> "<freed>", name |-> "<freed>", type |-> "<freed>",
   isAvailable |-> FALSE]
ReadFreed(e) == {e, FreedValue}

\* the lists the response can be read as when it is sent
LinuxAudioSourcesSent ==
  {<<a, b>> : a \in ReadFreed(LinuxAudioSources[1]),
              b \in ReadFreed(LinuxAudioSources[2])}

\* the values a request may carry under "sourceId": strings (the empty one,
\* listed ids, an id no list contains) and a value that is not a string
SourceIdValues ==
  {[type |-> "string", val |-> v] :
     v \in {"", "system_audio", "device_0", "no_such_device"}}
  \cup {[type |-> "int", val |-> "7"]}

\* the arguments of a request: not a map at all, or a map holding at most
\* the key "sourceId"
Arguments ==
  {[isMap |-> FALSE, entries |-> {}], [isMap |-> TRUE, entries |-> {}]}
  \cup {[isMap |-> TRUE, entries |-> {<<"sourceId", v>>}] :
          v \in SourceIdValues}

\* `arguments->find("sourceId")`: the values stored under the key
Find(a, key) == {e[2] : e \in {x \in a.entries : x[1] = key}}

\* the three nested tests of selectAudioSource: the arguments are a map, the
\* key is present, its value holds a string
IsSourceId(a) ==
  /\ a.isMap
  /\ \E v \in Find(a, "sourceId") : v.type = "string"

\* the string stored under "sourceId"
SourceIdOf(a) == (CHOOSE v \in Find(a, "sourceId") : TRUE).val

\* the result of selectAudioSource: the id echoed back, or the error
SelectResult(a) ==
  IF IsSourceId(a)
    THEN [method |-> "selectAudioSource", success |-> TRUE,
          selectedSourceId |-> SourceIdOf(a), arguments |-> a]
    ELSE [method |-> "selectAudioSource", success |-> FALSE,
          error |-> "INVALID_ARGUMENTS", arguments |-> a]

\* the selected source the plugin holds.  Neither AudioCapturePlugin (members
\* audioCapture_, audioEventSink_) nor the Linux private struct (channel) has
\* a member for it, and no handler stores the id: it stays unset.
NoSelection == [set |-> FALSE, id |-> ""]
Selection == NoSelection

\* the map getAudioConfig answers with
AudioConfig ==
  [sampleRate |-> 16000, channels |-> 1, bitsPerSample |-> 16,
   bufferSize |-> 1600]

\* the platform thread is between requests
Dispatching(p) == platform = p /\ ~crashed /\ ctl = "idle"

\* a request answers and leaves everything else as it was
Respond(r) ==
  /\ response' = r
  /\ UNCHANGED <<fixed, engine, session, stream, ctl, crashed>>

GetAvailableAudioSources ==
  /\ Dispatching("windows")
  /\ Respond([method |-> "getAvailableAudioSources", success |-> TRUE,
              sources |-> AvailableAudioSources])

SelectAudioSource(a) ==
  /\ Dispatching("windows")
  /\ Respond(SelectResult(a))

GetAudioConfig ==
  /\ Dispatching("windows")
  /\ Respond([method |-> "getAudioConfig", success |-> TRUE,
              config |-> AudioConfig])

\* a method name the Windows handler does not know
NotImplemented ==
  /\ Dispatching("windows")
  /\ Respond([method |-> "getAudioSources", success |-> FALSE,
              error |-> "NOT_IMPLEMENTED"])

\* A request of the Linux handler answers; once the heap is corrupted, the
\* allocations and releases the handler makes may instead end the process
\* before anything is answered.
LinuxRespond(r) ==
  \/ Respond(r)
  \/ /\ heapCorrupted
     /\ crashed' = TRUE
     /\ UNCHANGED <<fixed, engine, session, stream, ctl, response>>

\* the Linux handler: every branch only builds a response.  getAudioSources
\* sends a list of freed elements: the list is read as built or as garbage,
\* or the codec fails on it and nothing is answered; destroying the response
\* then frees the elements once more, which corrupts the heap and may end
\* the process at once or in a later request.
LinuxGetAudioSources ==
  /\ Dispatching("linux")
  /\ \/ \E l \in LinuxAudioSourcesSent :
          response' = [method |-> "getAudioSources", success |-> TRUE,
                       sources |-> l]
     \/ response' = [method |-> "getAudioSources", success |-> FALSE,
                     error |-> "NO_RESPONSE"]
  /\ heapCorrupted' = TRUE
  /\ crashed' \in BOOLEAN
  /\ UNCHANGED <<platform, clock, samples, audioData, engine, session,
                 stream, ctl>>

LinuxSelectAudioSource(a) ==
  /\ Dispatching("linux")
  /\ LinuxRespond(SelectResult(a))

LinuxStartCapture ==
  /\ Dispatching("linux")
  /\ LinuxRespond([method |-> "startCapture", success |-> TRUE,
                   message |-> "Capture started (mock implementation)"])

LinuxStopCapture ==
  /\ Dispatching("linux")
  /\ LinuxRespond([method |-> "stopCapture", success |-> TRUE,
                   message |-> "Capture stopped (mock implementation)"])

LinuxGetAudioConfig ==
  /\ Dispatching("linux")
  /\ LinuxRespond([method |-> "getAudioConfig", success |-> TRUE,
                   config |-> AudioConfig])

\* a method name the Linux handler does not know
LinuxNotImplemented ==
  /\ Dispatching("linux")
  /\ LinuxRespond([method |-> "getAvailableAudioSources", success |-> FALSE,
                   error |-> "NOT_IMPLEMENTED"])

\* the steps of the capture engine, of the event stream and of the producer
\* threads
CaptureNext ==
  \/ StartCaptureCall
  \/ StartCaptureFail
  \/ StartCaptureBegin
  \/ StartCaptureSpawn
  \/ StopCaptureBegin
  \/ StopCaptureReturn
  \/ OnListen
  \/ OnCancel
  \/ DestroySink
  \/ DestroyStopFlag
  \/ DestroyStopJoin
  \/ Producer

Next ==
  \/ StartCaptureCall
  \/ StartCaptureFail
  \/ StartCaptureBegin
  \/ StartCaptureSpawn
  \/ StopCaptureBegin
  \/ StopCaptureReturn
  \/ OnListen
  \/ OnCancel
  \/ DestroySink
  \/ DestroyStopFlag
  \/ DestroyStopJoin
  \/ Producer
  \/ GetAvailableAudioSources
  \/ \E a \in Arguments : SelectAudioSource(a)
  \/ GetAudioConfig
  \/ NotImplemented
  \/ LinuxGetAudioSources
  \/ \E a \in Arguments : LinuxSelectAudioSource(a)
  \/ LinuxStartCapture
  \/ LinuxStopCapture
  \/ LinuxGetAudioConfig
  \/ LinuxNotImplemented

Spec == Init /\ [][Next]_vars

\* GetTickCount64 advances: a millisecond passes
Tick ==
  /\ ~crashed /\ clock < MaxClock
  /\ clock' = clock + 1
  /\ UNCHANGED <<platform, samples, audioData, heapCorrupted, engine, session,
                 stream, ctl, response, crashed>>

\* the capture with time passing
TimedSpec == Init /\ [][CaptureNext \/ Tick]_vars

\* ---- the PCM conversion of the startCapture callback ----

\* A float sample is held as its numerator over SampleUnit: n stands for
\* n / 32768, which a float holds exactly.
SampleUnit == 32768
\* the samples from -1.0 to 1.0
Samples == -SampleUnit..SampleUnit
\* -1.0, the two samples next to zero, zero and 1.0
EdgeSamples == {-SampleUnit, -1, 0, 1, SampleUnit}
\* `std::vector<float> samples(1600)`
BlockSize == 1600
\* the 16-bit integers
Int16 == -32768..32767

\* `static_cast<int16_t>(sample * 32767.0f)`: the product, truncated toward
\* zero (for these samples the float product rounds to the same side)
Quantize(n) ==
  IF n >= 0 THEN (n * 32767) \div SampleUnit
            ELSE -(((-n) * 32767) \div SampleUnit)

\* `intSample & 0xFF`
LowByte(v) == v % 256

\* a variant without the mask
HighByteUnmasked(v) == v \div 256

\* `(intSample >> 8) & 0xFF`
HighByte(v) == (v \div 256) % 256

\* the loop over the samples: two bytes pushed for each, low byte first
EncodeBlock(s) ==
  [k \in 1..(2 * Len(s)) |->
     IF k % 2 = 1 THEN LowByte(Quantize(s[(k + 1) \div 2]))
                  ELSE HighByte(Quantize(s[k \div 2]))]

\* the blocks converted: every single sample, the short blocks of edge
\* samples, and the blocks of 1600 equal samples
SampleBlocks ==
  {<<n>> : n \in Samples}
  \cup UNION {[1..l -> EdgeSamples] : l \in 0..MaxBlockLen}
  \cup {[i \in 1..BlockSize |-> n] : n \in {-SampleUnit, 0, SampleUnit}}

EncInit ==
  /\ Constructed
  /\ platform = "windows"
  /\ samples \in SampleBlocks

\* the callback converts the block it was handed
Convert ==
  /\ samples # <<>> /\ audioData = <<>>
  /\ audioData' = EncodeBlock(samples)
  /\ UNCHANGED <<platform, clock, samples, heapCorrupted, engine, session,
                 stream, ctl, response, crashed>>

\* the conversion on its own, for every block above
EncSpec == EncInit /\ [][Convert]_vars

\* The operating system schedules every producer thread, and the control
\* thread finishes a call it has entered (StartCapture, StopCapture, the
\* destructors).  Which requests arrive, and when, is left open.  The
\* requests that only build a response (lists, selection, configuration,
\* unknown names) cannot delay any of these steps and are left out here.
FairSpec ==
  /\ Init /\ [][CaptureNext]_vars
  /\ \A t \in Tids : WF_vars(WorkerStep(t))
  /\ WF_vars(StartCaptureSpawn)
  /\ WF_vars(StopCaptureReturn)
  /\ WF_vars(DestroyStopFlag)
  /\ WF_vars(DestroyStopJoin)

\* ------------------------------------------------------------------ claims
StartOk == [method |-> "startCapture", success |-> TRUE]
StartFailed == [method |-> "startCapture", success |-> FALSE]
StopOk == [method |-> "stopCapture", success |-> TRUE]
UnjoinedThreads == {t \in Tids : Unjoined(t)}
\* the control thread is between requests and the capture flag is clear:
\* no capture was started yet, or StopCapture has returned and no later
\* StartCapture has succeeded
StoppedAndReturned == ctl \in {"idle", "destroyed"} /\ ~isCapturing

\* C1: after StopCapture has returned, and until a later successful
\* StartCapture, no producer thread is running: none is inside the callback
\* or at the delivery call, and none can enter them.
NoCallbackAfterStop ==
  StoppedAndReturned => \A t \in Tids : ~Running(t) /\ ~InCallback(t)

\* C1 witness: a capture that delivered a chunk has been stopped
StoppedAfterDelivery ==
  /\ StoppedAndReturned
  /\ response = StopOk
  /\ Len(delivered) > 0
  /\ \E t \in Tids : workers[t].pc = "joined"

\* C2 (as claimed): no detach or other change of the sink handle takes effect
\* between the callback's sink test and its delivery call, and every chunk is
\* delivered through the handle that the test saw, to a sink that is alive.
SinkAccessSynchronized ==
  /\ \A t \in Tids : workers[t].pc = "cb_deliver"
                       => audioEventSink = workers[t].seen
  /\ \A i \in 1..Len(delivered) :
       delivered[i].live /\ delivered[i].sink = delivered[i].checked
  /\ platform = "windows" => ~crashed

\* C3 (as claimed): once teardown has released the event sink, the producer
\* thread has already been stopped and joined.
TeardownStopsBeforeRelease ==
  ctl \in {"dtor_stop", "dtor_join", "destroyed"}
    => \A t \in Tids : ~Unjoined(t)

\* C4: at most one producer thread exists at any time, and a startCapture
\* answered with failure (a second start with no stop between) leaves exactly
\* one, the thread the engine holds, still running.
AtMostOneProducer ==
  /\ Cardinality(UnjoinedThreads) <= 1
  /\ (ctl = "idle" /\ response = StartFailed)
       => /\ UnjoinedThreads = {captureThread}
          /\ Running(captureThread)

\* C4 witness: a second startCapture has been refused while a producer runs
SecondStartRefused ==
  /\ ctl = "idle" /\ response = StartFailed
  /\ Cardinality(UnjoinedThreads) = 1
  /\ isCapturing /\ callback = 1

\* C5: a startCapture handled while the engine is capturing changes nothing
\* in the engine (flag, thread handle, callback, threads) and answers
\* success = false.
StartWhileCapturingIsNoOp ==
  [][(ctl = "start_check" /\ ctl' # ctl /\ captureThread # 0)
       => /\ UNCHANGED <<engine, session, stream>>
          /\ isCapturing'
          /\ ctl' = "idle"
          /\ response' = StartFailed]_vars

\* C5 witness: after the refused start the first callback is still installed
RefusedStartKeepsCallback ==
  /\ response = StartFailed
  /\ ctl = "idle"
  /\ isCapturing /\ captureThread = 1 /\ callback = 1 /\ spawned = 1
  /\ workers[1].iter > 0

\* C6: StopCapture in the Idle state changes nothing, and every StopCapture
\* that returns leaves the engine Idle with no thread handle and no producer
\* thread, stopCapture answering success; a stop after a stop is such a stop
\* in the Idle state.
StopIsIdempotent ==
  [][/\ (ctl = "idle" /\ ctl' = "stop_join" /\ ~isCapturing
           /\ captureThread = 0)
          => UNCHANGED <<engine, session, stream>>
     /\ (ctl = "stop_join" /\ ctl' = "idle")
          => /\ ~isCapturing' /\ captureThread' = 0
             /\ \A t \in Tids : ~Unjoined(t)'
             /\ response' = StopOk
             /\ (captureThread = 0 => UNCHANGED <<engine, session, stream>>)
    ]_vars

\* C6 witness: a second stopCapture in a row, after a capture, is under way
SecondStopInARow ==
  /\ ctl = "stop_join" /\ response = StopOk
  /\ captureThread = 0 /\ ~isCapturing
  /\ spawned > 0

\* C7: a StopCapture entered while capturing returns, with the thread handle
\* released and the engine Idle, provided the producer is scheduled fairly
\* and its callback terminates (the process has not died inside it).
StopEventuallyReturns ==
  (ctl = "stop_join" /\ captureThread # 0)
    ~> (crashed \/ (ctl = "idle" /\ ~isCapturing /\ captureThread = 0
                      /\ UnjoinedThreads = {}))

\* C7 witness: a StopCapture has joined a producer that was stopped while it
\* was capturing, and has returned
StopReturnedAfterJoin ==
  /\ ctl = "idle" /\ response = StopOk /\ captureThread = 0
  /\ \E t \in Tids : workers[t].pc = "joined"
  /\ produced > 0 /\ audioEventSink # 0

\* StartCapture has just returned true with sink s attached, and the new
\* producer thread has not yet entered its loop
JustStarted(s) ==
  /\ ctl = "idle" /\ response = StartOk /\ captureThread # 0
  /\ workers[captureThread].pc = "loop" /\ workers[captureThread].iter = 0
  /\ workers[captureThread].born = s /\ audioEventSink = s
\* the first loop iteration of the current capture's thread has delivered a
\* chunk to the live sink s
FirstChunkDelivered(s) ==
  \E i \in 1..Len(delivered) :
    /\ delivered[i].tid = captureThread /\ delivered[i].iter = 1
    /\ delivered[i].sink = s /\ delivered[i].live

\* C8 (as claimed): whenever StartCapture has returned true with a sink
\* attached, the first producer iteration delivers a chunk to that sink.
StartAlwaysDelivers ==
  \A s \in SinkIds : JustStarted(s) ~> FirstChunkDelivered(s)

\* C8 (amended): ... unless the capture is stopped, the sink is detached or
\* replaced, or the plugin is torn down before that delivery.
StartDeliversUnlessStopped ==
  \A s \in SinkIds :
    JustStarted(s)
      ~> \/ FirstChunkDelivered(s)
         \/ ~isCapturing
         \/ audioEventSink # s
         \/ ctl = "dtor_stop"

\* C8 witness: the first iteration of a capture started with a sink attached
\* has delivered its chunk to that sink
FirstIterationDelivered ==
  \E s \in SinkIds :
    /\ isCapturing /\ captureThread # 0
    /\ workers[captureThread].born = s /\ FirstChunkDelivered(s)

\* during the current capture, which began with a sink attached, that sink
\* was detached and sink s was attached; the capture has not been stopped
Reattached(s) ==
  /\ ctl = "idle" /\ isCapturing /\ captureThread # 0
  /\ workers[captureThread].born # 0 /\ workers[captureThread].born # s
  /\ audioEventSink = s
\* the current capture's thread has delivered a chunk to the live sink s
ChunkDelivered(s) ==
  \E i \in 1..Len(delivered) :
    /\ delivered[i].tid = captureThread
    /\ delivered[i].sink = s /\ delivered[i].live

\* C9 (as claimed): after a detach and a reattachment during a capture, the
\* same capture delivers a chunk to the new sink, as long as the engine stays
\* Capturing and the new sink stays attached.
DeliveryResumesAfterReattach ==
  \A s \in SinkIds :
    Reattached(s)
      ~> \/ ChunkDelivered(s)
         \/ ~isCapturing
         \/ audioEventSink # s
         \/ ctl = "dtor_stop"

\* C10 (as claimed): a block dropped by the sink test is never delivered,
\* every chunk is received by the sink that was attached when its block's
\* callback ran the sink test, and no more chunks are delivered than blocks
\* were produced.
DroppedNeverDelivered ==
  /\ \A i \in 1..Len(delivered) :
       /\ delivered[i].block \notin dropped
       /\ delivered[i].sink = delivered[i].checked
       /\ delivered[i].live
  /\ Len(delivered) <= produced

\* a selectAudioSource request whose sourceId is absent (no map, or no such
\* key), not a string, or the empty string
BadSourceId(a) ==
  \/ ~a.isMap
  \/ Find(a, "sourceId") = {}
  \/ \E v \in Find(a, "sourceId") : v.type # "string" \/ v.val = ""

\* C11 (as claimed): selectAudioSource answers INVALID_ARGUMENTS whenever the
\* sourceId is absent, empty or not a string.
SelectRejectsBadSourceId ==
  (response.method = "selectAudioSource" /\ BadSourceId(response.arguments))
    => (~response.success /\ response.error = "INVALID_ARGUMENTS")

\* C12 (as claimed): after a selectAudioSource that succeeded, the id it
\* echoed back is the current Selection.
SelectRecordsSelection ==
  (response.method = "selectAudioSource" /\ response.success)
    => Selection = [set |-> TRUE, id |-> response.selectedSourceId]

\* the ids of a list of sources, in order
Ids(l) == [i \in 1..Len(l) |-> l[i].id]

\* C13 (as claimed): whatever the capture state and the sink, the list of
\* sources answered holds exactly one entry with id "system_audio", its ids
\* are pairwise distinct, and it is the same list on every call:
\* system_audio, device_0, device_1 on Windows, default_microphone,
\* system_audio on Linux.
ListSourcesIsFixedCatalog ==
  (response.method \in {"getAvailableAudioSources", "getAudioSources"}
   /\ response.success)
    => LET ids == Ids(response.sources) IN
         /\ Cardinality({i \in DOMAIN ids : ids[i] = "system_audio"}) = 1
         /\ \A i, j \in DOMAIN ids : i # j => ids[i] # ids[j]
         /\ ids = IF platform = "windows"
                    THEN <<"system_audio", "device_0", "device_1">>
                    ELSE <<"default_microphone", "system_audio">>

\* C14: the capture state starts idle; the flag is set only by a start
\* request that then answers success, and cleared only inside StopCapture;
\* a request or stream event that is not a start or a stop leaves the flag,
\* the thread handle, the callback and the producer threads as they were.
CaptureStateChangesOnlyByStartStop ==
  /\ ~isCapturing
  /\ [][/\ ((~isCapturing /\ isCapturing')
             => (ctl = "start_check" /\ ctl' = "start_spawn"))
         /\ ((ctl = "start_spawn" /\ ctl' # ctl) => response' = StartOk)
         /\ ((isCapturing /\ ~isCapturing')
             => (ctl \in {"idle", "dtor_stop"}
                 /\ ctl' \in {"stop_join", "dtor_join"}))
         /\ ((ctl = "idle" /\ ctl' = "idle"
              /\ (response' # response \/ session' # session))
             => UNCHANGED engine)]_vars

\* C14 witness: a request other than start and stop was answered, and the
\* sink was detached, during a capture whose producer is still running
OtherRequestDuringCapture ==
  /\ response.method = "selectAudioSource" /\ response.success
  /\ audioEventSink = 0 /\ freed # {}
  /\ isCapturing /\ captureThread # 0 /\ Running(captureThread)

\* C15: the producer leaves its loop only on reading the flag clear; reading
\* it clear at the loop test it exits at once; and with the flag clear a
\* block is produced only by a thread that had already passed the loop test,
\* which after that callback is back at the loop test.
FlagIsTheOnlyStopSignal ==
  [][\A t \in Tids :
       /\ (workers[t].pc # "exited" /\ workers'[t].pc = "exited")
            => (workers[t].pc = "loop" /\ ~isCapturing)
       /\ (workers[t].pc = "loop" /\ ~isCapturing /\ workers'[t] # workers[t])
            => workers'[t] = Exited
       /\ (~isCapturing /\ workers'[t].block # workers[t].block
           /\ workers'[t].pc = "cb_check")
            => (workers[t].pc = "cb_test" /\ produced' = produced + 1)
       /\ (~isCapturing /\ InCallback(t) /\ workers'[t] # workers[t])
            => (workers'[t].pc \in {"cb_deliver", "loop"} /\ produced' = produced)
    ]_vars

\* C15 witness: StopCapture has cleared the flag and waits for a producer
\* that had passed the loop test and is in the one further callback
OneFurtherCallback ==
  /\ ctl = "stop_join" /\ ~isCapturing
  /\ \E t \in Tids : /\ workers[t].pc = "cb_deliver"
                     /\ workers[t].iter = 2
                     /\ workers[t].block = produced

\* C16: of any two chunks delivered, the later one's timestamp is not below
\* the earlier one's, whichever captures they belong to.
TimestampsNeverDecrease ==
  \A i, j \in 1..Len(delivered) :
    i < j => delivered[i].ts <= delivered[j].ts

\* C16 witness: a second capture delivered a chunk after the first one's, at
\* a later tick count
LaterCaptureLaterTimestamp ==
  \E i, j \in 1..Len(delivered) :
    /\ i < j
    /\ delivered[i].tid # delivered[j].tid
    /\ delivered[i].ts < delivered[j].ts

\* a byte pair read as a little-endian signed 16-bit integer
Decode(lo, hi) ==
  LET u == lo + 256 * hi IN IF u >= 32768 THEN u - 65536 ELSE u

\* the two bytes of v are the low and the high byte of its 16-bit two's
\* complement image, and they decode to v
RoundTrips(v, lo, hi) ==
  /\ lo \in 0..255 /\ hi \in 0..255
  /\ lo = (v + 65536) % 256
  /\ hi = ((v + 65536) \div 256) % 256
  /\ Decode(lo, hi) = v

\* C17: a converted block of n samples has 2n bytes (3200 for a block of
\* 1600); the k-th byte pair is the low byte then the high byte of the k-th
\* quantized sample and decodes to it; 0 gives 0,0 and 32767 gives 255,127;
\* and the byte split decodes back on the whole 16-bit range.
PcmEncodingRoundTrips ==
  /\ audioData # <<>> =>
       /\ Len(audioData) = 2 * Len(samples)
       /\ Len(samples) = BlockSize => Len(audioData) = 3200
       /\ \A k \in 1..Len(samples) :
            LET v == Quantize(samples[k])
                lo == audioData[2 * k - 1]
                hi == audioData[2 * k]
            IN /\ v \in Int16
               /\ RoundTrips(v, lo, hi)
               /\ v = 0 => (lo = 0 /\ hi = 0)
               /\ v = 32767 => (lo = 255 /\ hi = 127)
               /\ samples[k] = SampleUnit => v = 32767
  /\ (samples = <<>> /\ audioData = <<>>) =>
       \A v \in Int16 : RoundTrips(v, LowByte(v), HighByte(v))

\* C17 witness: a block of 1600 samples of -1.0 was converted to 3200 bytes,
\* each pair 0x01, 0x80
FullBlockConverted ==
  /\ Len(samples) = BlockSize /\ Len(audioData) = 3200
  /\ samples[BlockSize] = -SampleUnit
  /\ audioData[3199] = 1 /\ audioData[3200] = 128

\* C18: between the calls of StartCapture and StopCapture the engine holds a
\* thread handle exactly when the capture flag is set, and the thread a held
\* handle names has been created and not joined.
HandleHeldIffCapturing ==
  ctl \in {"idle", "dtor_stop", "destroyed"} =>
    /\ (captureThread # 0) <=> isCapturing
    /\ captureThread # 0 =>
         (captureThread \in Tids /\ Unjoined(captureThread))
    /\ UnjoinedThreads \subseteq {captureThread}

\* C18 witness: idle again, with no handle, after a capture whose thread was
\* joined, and capturing with a handle in between
IdleAgainWithoutHandle ==
  /\ ctl = "idle" /\ ~isCapturing /\ captureThread = 0
  /\ response = StopOk
  /\ spawned = 1 /\ workers[1] = Joined

\* the blocks handed to a callback that has not returned
InFlight == {workers[t].block : t \in {u \in Tids : InCallback(u)}}

\* C19: at most one callback invocation is in progress; every block produced
\* is handed to one invocation, which is still in progress or has delivered
\* it once or has dropped it; and the chunks are delivered in the order of
\* their blocks.
CallbacksSerialInOrder ==
  /\ Cardinality({t \in Tids : InCallback(t)}) <= 1
  /\ \A i, j \in 1..Len(delivered) :
       i < j => delivered[i].block < delivered[j].block
  /\ \A b \in 1..produced :
       /\ Cardinality({i \in 1..Len(delivered) : delivered[i].block = b}) <= 1
       /\ \/ b \in InFlight
          \/ b \in dropped
          \/ \E i \in 1..Len(delivered) : delivered[i].block = b
       /\ b \in InFlight =>
            /\ b \notin dropped
            /\ b = produced
            /\ \A i \in 1..Len(delivered) : delivered[i].block < b

\* C19 witness: two blocks were produced and delivered, the first before the
\* second, and the second block's callback has returned
TwoChunksInOrder ==
  /\ Len(delivered) = 2
  /\ delivered[1].block = 1 /\ delivered[2].block = 2
  /\ InFlight = {}

\* C20: a StartCapture entered with the flag clear installs its callback,
\* sets the flag, creates a thread never used before and answers success,
\* at a moment when every earlier thread has been joined; and every
\* callback invocation is of the callback installed by the start that
\* created the invoking thread.
CaptureIsRestartable ==
  /\ [](/\ \A t \in Tids : InCallback(t) => workers[t].cb = t
        /\ \A i \in 1..Len(delivered) : delivered[i].cb = delivered[i].tid)
  /\ [][/\ ((ctl = "start_check" /\ ~isCapturing /\ ctl' # ctl)
              => /\ ctl' = "start_spawn"
                 /\ isCapturing'
                 /\ callback' = spawned + 1)
        /\ ((ctl = "start_spawn" /\ ctl' # ctl)
              => /\ response' = StartOk
                 /\ spawned' = spawned + 1
                 /\ captureThread' = spawned'
                 /\ callback = spawned'
                 /\ workers[spawned'].pc = "none"
                 /\ workers'[spawned'].pc = "loop"
                 /\ \A t \in Tids \ {spawned'} :
                      workers[t].pc \in {"none", "joined"})]_vars

\* C20 witness: after a stop that returned, a second capture delivered a
\* chunk through its own callback, the first capture's thread being joined
SecondCaptureDelivered ==
  /\ workers[1] = Joined
  /\ \E i, j \in 1..Len(delivered) :
       /\ delivered[i].tid = 1 /\ delivered[i].cb = 1
       /\ delivered[j].tid = 2 /\ delivered[j].cb = 2

====
